---- MODULE Spec2Model ----
(***************************************************************************)
(* Model of the e2e-runner: e2e.Setup (the lifecycle coordinator and its   *)
(* background goroutine), its three kinds of caller (cmd/e2e-runner main,  *)
(* TestE2E, and a client of the exported Setup function) and the two HTTP  *)
(* handlers of the runner.                                                 *)
(*                                                                         *)
(* Every process (one Setup lifecycle per process) is a run r \in Runs.    *)
(* The database (realms, apps) is shared by all runs.                      *)
(***************************************************************************)
EXTENDS Naturals, Integers, Sequences, FiniteSets, TLC

\* ------------------------------------------------------------- bounds
NumSetups == 2          \* processes calling Setup against one database
MaxRequests == 2        \* HTTP requests in flight at once
MaxTeardownCalls == 2   \* times a client invokes the returned teardown
MaxSeed == 2            \* distinct random buffers rand.Read can deliver: 0..MaxSeed

Runs == 1..NumSetups
Slots == 1..MaxRequests
Seeds == 0..MaxSeed

\* ---------------------------------------------------------- constants
realmName == "e2e-test-realm"
adminKeyName == "e2e-admin-key."
deviceKeyName == "e2e-device-key."
APIKeyTypeAdmin == "admin"
APIKeyTypeDevice == "device"
FailPrefix == "failed (check server logs for more details): "
StatusOK == 200
StatusInternalServerError == 500

\* the test's table of cases (e2e_test.go)
cases == << [Name |-> "default", Revise |-> FALSE],
            [Name |-> "revise", Revise |-> TRUE] >>

\* the steps of provisioning, in program order; each can fail
ProvisionSteps == << "load", "open", "find", "saveRealm", "suffix",
                     "createAdmin", "createDevice" >>
ProvisionErrs == { ProvisionSteps[i] : i \in 1..Len(ProvisionSteps) }

VARIABLES
  runs,        \* the processes that exist in this behaviour
  cl,          \* cl[r]: the goroutine that calls Setup (kind, pc, locals)
  bg,          \* bg[r]: the goroutine Setup starts (pc, locals, defer stack)
  proc,        \* proc[r]: the OS process (st, crash)
  ctxDone,     \* ctxDone[r]: ctx.Done() is closed
  doneClosed,  \* doneClosed[r]: Setup's done channel is closed
  cfg,         \* cfg[r]: cfg.TestConfig, the shared run configuration
  hcfg,        \* hcfg[r][route]: the config copy each handler closure owns
  reqs,        \* reqs[r][i]: HTTP request slot i
  trun,        \* trun[r]: the workflow runs the test's subtests made
  rev,         \* rev[r]: history of the revocations (starts, failures)
  realms,      \* number of realms named realmName in the database
  uniqueName,  \* whether the database enforces unique realm names
  entropy,     \* entropy[r]: the buffer crypto/rand will deliver to randomString
  apps         \* the authorized apps table: a sequence, the key is the index

vars == << runs, cl, bg, proc, ctxDone, doneClosed, cfg, hcfg, reqs, trun,
           rev, realms, uniqueName, entropy, apps >>

NoKey == 0
EmptyTestConfig(revise) ==
  [VerificationAdminAPIKey |-> NoKey, VerificationAPIServerKey |-> NoKey,
   DoRevise |-> revise]
NoConfig == [VerificationAdminAPIKey |-> NoKey, VerificationAPIServerKey |-> NoKey,
             DoRevise |-> FALSE, registered |-> FALSE]
IdleReq == [st |-> "idle", route |-> "none", live |-> FALSE, window |-> FALSE,
            flag |-> FALSE, werr |-> "none", status |-> 0, body |-> << >>]

CallerKinds == {"main", "test", "client"}
FirstPc(kind) == CASE kind = "main" -> "m_config"
                   [] kind = "test" -> "t_config"
                   [] OTHER -> "c_setup"

InitCommon ==
  /\ cl \in [Runs -> { [kind |-> k, pc |-> FirstPc(k), recv |-> "unset", ret |-> "pending",
                        tdCalls |-> 0, tcase |-> 1, err |-> FALSE, recvs |-> 0] : k \in CallerKinds }]
  /\ bg = [r \in Runs |-> [pc |-> "idle", defers |-> << >>, send |-> "nil", realm |-> FALSE,
                           suffix |-> << >>, adminKey |-> NoKey, deviceKey |-> NoKey,
                           db |-> "none", panicking |-> FALSE,
                           sends |-> 0, cfgw |-> 0, closes |-> 0]]
  /\ proc = [r \in Runs |-> [st |-> "running", crash |-> "none"]]
  /\ ctxDone = [r \in Runs |-> FALSE]
  /\ doneClosed = [r \in Runs |-> FALSE]
  /\ cfg \in [Runs -> { EmptyTestConfig(b) : b \in BOOLEAN }]
  /\ hcfg = [r \in Runs |-> [rt \in {"default", "revise"} |-> NoConfig]]
  /\ reqs = [r \in Runs |-> [i \in Slots |-> IdleReq]]
  /\ trun = [r \in Runs |-> << >>]
  /\ rev = [r \in Runs |-> [admin |-> 0, device |-> 0, fail |-> {}]]
  /\ uniqueName \in BOOLEAN
  /\ entropy \in [Runs -> Seeds]
  /\ apps = << >>

\* One process: main, the test or a client, with the realm present or not.
\* With a single Setup the unique-name constraint never comes into play.
Init ==
  /\ InitCommon
  /\ runs = {1}
  /\ \A r \in Runs \ {1} : cl[r].kind = "client" /\ cfg[r].DoRevise = FALSE
  /\ realms \in {0, 1}
  /\ uniqueName
  /\ \A r \in Runs : entropy[r] = 0

Alive(r) == r \in runs /\ proc[r].st = "running"

\* ------------------------------------------------------------ database
\* FindAuthorizedAppByAPIKey's notion of a credential that is in use
IsLive(k) == k \in 1..Len(apps) /\ ~apps[k].deleted
CreatedBy(r) == { k \in 1..Len(apps) : apps[k].owner = r }
LiveOf(r, type) == { k \in CreatedBy(r) : apps[k].type = type /\ ~apps[k].deleted }

\* realm.CreateAuthorizedApp: a new row in the realm; its key is returned
NewApp(r, type, name) ==
  [owner |-> r, type |-> type, realm |-> realmName, name |-> name, deleted |-> FALSE]

\* ---------------------------------------------------------- randomString
\* sha256.Size: the bytes of a digest
Size == 32

\* sha256.Sum256(b): some array of Size bytes that the buffer determines
Sum256(b) == [i \in 1..Size |-> (b * 31 + i * 7) % 256]

HexDigits == << "0", "1", "2", "3", "4", "5", "6", "7",
                "8", "9", "a", "b", "c", "d", "e", "f" >>

\* Variant of HexByte that formats each byte without zero padding
HexByte_NoPad(b) ==
  IF b < 16 THEN << HexDigits[b + 1] >>
  ELSE << HexDigits[(b \div 16) + 1], HexDigits[(b % 16) + 1] >>

\* the verb %x on one byte of a byte array: two lower-case hex digits
HexByte(b) == << HexDigits[(b \div 16) + 1], HexDigits[(b % 16) + 1] >>

\* fmt.Sprintf("%x", digest): the digest's bytes in hex, in order
RECURSIVE Sprintf_x(_)
Sprintf_x(bytes) ==
  IF bytes = << >> THEN << >> ELSE HexByte(Head(bytes)) \o Sprintf_x(Tail(bytes))

\* randomString, given the buffer rand.Read filled
randomString(b) == Sprintf_x(Sum256(b))

\* prefix + suffix: the name as its prefix followed by the suffix's characters
KeyName(prefix, suffix) == << prefix >> \o suffix

\* ------------------------------------------- the background goroutine
\* ready <- fmt.Errorf(...); return
SendErr(r, step) ==
  bg' = [bg EXCEPT ![r].pc = "send", ![r].send = step, ![r].sends = @ + 1]

\* db, err := cfg.Database.Load(ctx)
BgLoad(r) ==
  /\ Alive(r) /\ bg[r].pc = "load"
  /\ \E ok \in BOOLEAN :
       IF ok THEN bg' = [bg EXCEPT ![r].pc = "open"] ELSE SendErr(r, "load")
  /\ UNCHANGED << runs, cl, proc, ctxDone, doneClosed, cfg, hcfg, reqs, trun, rev,
                  realms, uniqueName, entropy, apps >>

\* Variant of BgOpen that does not defer db.Close()
BgOpen_NoDefer(r) ==
  /\ Alive(r) /\ bg[r].pc = "open"
  /\ \E ok \in BOOLEAN :
       IF ok
       THEN bg' = [bg EXCEPT ![r].pc = "find", ![r].db = "open"]
       ELSE SendErr(r, "open")
  /\ UNCHANGED << runs, cl, proc, ctxDone, doneClosed, cfg, hcfg, reqs, trun, rev,
                  realms, uniqueName, entropy, apps >>

\* db.Open(ctx); defer db.Close()
BgOpen(r) ==
  /\ Alive(r) /\ bg[r].pc = "open"
  /\ \E ok \in BOOLEAN :
       IF ok
       THEN bg' = [bg EXCEPT ![r].pc = "find", ![r].db = "open",
                             ![r].defers = Append(@, "close")]
       ELSE SendErr(r, "open")
  /\ UNCHANGED << runs, cl, proc, ctxDone, doneClosed, cfg, hcfg, reqs, trun, rev,
                  realms, uniqueName, entropy, apps >>

\* realm, err := db.FindRealmByName(realmName)
BgFindRealm(r) ==
  /\ Alive(r) /\ bg[r].pc = "find"
  /\ \/ realms > 0 /\ bg' = [bg EXCEPT ![r].pc = "suffix", ![r].realm = TRUE]
     \/ realms = 0 /\ bg' = [bg EXCEPT ![r].pc = "saveRealm"]
     \/ SendErr(r, "find")
  /\ UNCHANGED << runs, cl, proc, ctxDone, doneClosed, cfg, hcfg, reqs, trun, rev,
                  realms, uniqueName, entropy, apps >>

\* realm = database.NewRealmWithDefaults(realmName); db.SaveRealm(realm, System)
\* The database either enforces unique realm names (the save of a second realm
\* of that name fails) or it does not (a second realm is stored).
SaveRealm(r) ==
  \/ /\ ~(uniqueName /\ realms > 0)
     /\ realms' = realms + 1
     /\ bg' = [bg EXCEPT ![r].pc = "suffix", ![r].realm = TRUE]
  \/ /\ UNCHANGED realms
     /\ SendErr(r, "saveRealm")

BgSaveRealm(r) ==
  /\ Alive(r) /\ bg[r].pc = "saveRealm"
  /\ SaveRealm(r)
  /\ UNCHANGED << runs, cl, proc, ctxDone, doneClosed, cfg, hcfg, reqs, trun, rev,
                  uniqueName, entropy, apps >>

\* suffix, err := randomString()
BgSuffix(r) ==
  /\ Alive(r) /\ bg[r].pc = "suffix"
  /\ \E ok \in BOOLEAN :
       IF ok
       THEN bg' = [bg EXCEPT ![r].pc = "createAdmin",
                             ![r].suffix = randomString(entropy[r])]
       ELSE SendErr(r, "suffix")
  /\ UNCHANGED << runs, cl, proc, ctxDone, doneClosed, cfg, hcfg, reqs, trun, rev,
                  realms, uniqueName, entropy, apps >>

\* Variant of BgCreateAdmin that defers the admin cleanup before it looks at
\* the error of the create
BgCreateAdmin_DeferFirst(r) ==
  /\ Alive(r) /\ bg[r].pc = "createAdmin"
  /\ \E ok \in BOOLEAN :
       IF ok
       THEN /\ apps' = Append(apps, NewApp(r, APIKeyTypeAdmin, KeyName(adminKeyName, bg[r].suffix)))
            /\ bg' = [bg EXCEPT ![r].pc = "createDevice", ![r].adminKey = Len(apps) + 1,
                                ![r].defers = Append(@, "revAdmin")]
       ELSE /\ bg' = [bg EXCEPT ![r].pc = "send", ![r].send = "createAdmin",
                                ![r].sends = @ + 1,
                                ![r].defers = Append(@, "revAdmin")]
            /\ UNCHANGED apps
  /\ UNCHANGED << runs, cl, proc, ctxDone, doneClosed, cfg, hcfg, reqs, trun, rev,
                  realms, uniqueName, entropy >>

\* Variant of BgCreateAdmin that registers no deferred cleanup for the admin key
BgCreateAdmin_NoDefer(r) ==
  /\ Alive(r) /\ bg[r].pc = "createAdmin"
  /\ \E ok \in BOOLEAN :
       IF ok
       THEN /\ apps' = Append(apps, NewApp(r, APIKeyTypeAdmin, KeyName(adminKeyName, bg[r].suffix)))
            /\ bg' = [bg EXCEPT ![r].pc = "createDevice", ![r].adminKey = Len(apps) + 1]
       ELSE /\ SendErr(r, "createAdmin")
            /\ UNCHANGED apps
  /\ UNCHANGED << runs, cl, proc, ctxDone, doneClosed, cfg, hcfg, reqs, trun, rev,
                  realms, uniqueName, entropy >>

\* adminKey, err := realm.CreateAuthorizedApp(...); defer func() {...}()
BgCreateAdmin(r) ==
  /\ Alive(r) /\ bg[r].pc = "createAdmin"
  /\ \E ok \in BOOLEAN :
       IF ok
       THEN /\ apps' = Append(apps, NewApp(r, APIKeyTypeAdmin, KeyName(adminKeyName, bg[r].suffix)))
            /\ bg' = [bg EXCEPT ![r].pc = "createDevice", ![r].adminKey = Len(apps) + 1,
                                ![r].defers = Append(@, "revAdmin")]
       ELSE /\ SendErr(r, "createAdmin")
            /\ UNCHANGED apps
  /\ UNCHANGED << runs, cl, proc, ctxDone, doneClosed, cfg, hcfg, reqs, trun, rev,
                  realms, uniqueName, entropy >>

\* deviceKey, err := realm.CreateAuthorizedApp(...); defer func() {...}()
BgCreateDevice(r) ==
  /\ Alive(r) /\ bg[r].pc = "createDevice"
  /\ \E ok \in BOOLEAN :
       IF ok
       THEN /\ apps' = Append(apps, NewApp(r, APIKeyTypeDevice, KeyName(deviceKeyName, bg[r].suffix)))
            /\ bg' = [bg EXCEPT ![r].pc = "writeCfg", ![r].deviceKey = Len(apps) + 1,
                                ![r].defers = Append(@, "revDevice")]
       ELSE /\ SendErr(r, "createDevice")
            /\ UNCHANGED apps
  /\ UNCHANGED << runs, cl, proc, ctxDone, doneClosed, cfg, hcfg, reqs, trun, rev,
                  realms, uniqueName, entropy >>

\* cfg.TestConfig.VerificationAdminAPIKey = adminKey; ...APIServerKey = deviceKey
\* and the goroutine arrives at `ready <- nil`
BgWriteCfg(r) ==
  /\ Alive(r) /\ bg[r].pc = "writeCfg"
  /\ cfg' = [cfg EXCEPT ![r].VerificationAdminAPIKey = bg[r].adminKey,
                        ![r].VerificationAPIServerKey = bg[r].deviceKey]
  /\ bg' = [bg EXCEPT ![r].pc = "send", ![r].send = "nil",
                      ![r].sends = @ + 1, ![r].cfgw = @ + 1]
  /\ UNCHANGED << runs, cl, proc, ctxDone, doneClosed, hcfg, reqs, trun, rev,
                  realms, uniqueName, entropy, apps >>

\* Variant of ReadyHandshake in which Setup also selects on ctx.Done() and
\* takes a cancellation for the readiness result
ReadyHandshake_OrCancel(r) ==
  /\ Alive(r) /\ cl[r].pc = "s_recv"
  /\ \/ /\ bg[r].pc = "send"
        /\ cl' = [cl EXCEPT ![r].pc = "s_got", ![r].recv = bg[r].send, ![r].recvs = @ + 1]
        /\ bg' = [bg EXCEPT ![r].pc = IF bg[r].send = "nil" THEN "select" ELSE "return"]
     \/ /\ ctxDone[r]
        /\ cl' = [cl EXCEPT ![r].pc = "s_got", ![r].recv = "cancelled", ![r].recvs = @ + 1]
        /\ UNCHANGED bg
  /\ UNCHANGED << runs, proc, ctxDone, doneClosed, cfg, hcfg, reqs, trun, rev,
                  realms, uniqueName, entropy, apps >>

\* Variant of ReadyHandshake in which the branch of a failed device key
\* creation lacks its return: the goroutine goes on to the cfg writes and to
\* a second send
ReadyHandshake_NoReturn(r) ==
  /\ Alive(r) /\ bg[r].pc = "send" /\ cl[r].pc = "s_recv"
  /\ cl' = [cl EXCEPT ![r].pc = "s_got", ![r].recv = bg[r].send, ![r].recvs = @ + 1]
  /\ bg' = [bg EXCEPT ![r].pc = CASE bg[r].send = "nil" -> "select"
                                  [] bg[r].send = "createDevice" -> "writeCfg"
                                  [] OTHER -> "return"]
  /\ UNCHANGED << runs, proc, ctxDone, doneClosed, cfg, hcfg, reqs, trun, rev,
                  realms, uniqueName, entropy, apps >>

\* The rendezvous on the unbuffered channel: `ready <- v` in the goroutine
\* meets `err := <-ready` in Setup. After an error the goroutine returns,
\* after nil it goes on to the select.
ReadyHandshake(r) ==
  /\ Alive(r) /\ bg[r].pc = "send" /\ cl[r].pc = "s_recv"
  /\ cl' = [cl EXCEPT ![r].pc = "s_got", ![r].recv = bg[r].send, ![r].recvs = @ + 1]
  /\ bg' = [bg EXCEPT ![r].pc = IF bg[r].send = "nil" THEN "select" ELSE "return"]
  /\ UNCHANGED << runs, proc, ctxDone, doneClosed, cfg, hcfg, reqs, trun, rev,
                  realms, uniqueName, entropy, apps >>

\* Variant of BgSelect that closes done itself when woken by the context
BgSelect_ClosesDone(r) ==
  /\ Alive(r) /\ bg[r].pc = "select"
  /\ doneClosed[r] \/ ctxDone[r]
  /\ bg' = [bg EXCEPT ![r].pc = "return"]
  /\ doneClosed' = [doneClosed EXCEPT ![r] = TRUE]
  /\ UNCHANGED << runs, cl, proc, ctxDone, cfg, hcfg, reqs, trun, rev,
                  realms, uniqueName, entropy, apps >>

\* Variant of BgSelect with a default case: the select never blocks
BgSelect_NoWait(r) ==
  /\ Alive(r) /\ bg[r].pc = "select"
  /\ bg' = [bg EXCEPT ![r].pc = "return"]
  /\ UNCHANGED << runs, cl, proc, ctxDone, doneClosed, cfg, hcfg, reqs, trun, rev,
                  realms, uniqueName, entropy, apps >>

\* select { case <-done: case <-ctx.Done(): }
BgSelect(r) ==
  /\ Alive(r) /\ bg[r].pc = "select"
  /\ doneClosed[r] \/ ctxDone[r]
  /\ bg' = [bg EXCEPT ![r].pc = "return"]
  /\ UNCHANGED << runs, cl, proc, ctxDone, doneClosed, cfg, hcfg, reqs, trun, rev,
                  realms, uniqueName, entropy, apps >>

\* a panic that reaches the top of a goroutine ends the process
Panic(r, why) == proc' = [proc EXCEPT ![r] = [st |-> "crashed", crash |-> why]]

\* Variant of BgReturn that runs the deferred calls first registered first
BgReturn_FIFO(r) ==
  /\ Alive(r) /\ bg[r].pc = "return"
  /\ IF bg[r].defers = << >>
     THEN IF bg[r].panicking
          THEN Panic(r, "nilDeref") /\ UNCHANGED bg
          ELSE bg' = [bg EXCEPT ![r].pc = "exited"] /\ UNCHANGED proc
     ELSE /\ bg' = [bg EXCEPT ![r].pc = Head(bg[r].defers), ![r].defers = Tail(@)]
          /\ UNCHANGED proc
  /\ rev' = [rev EXCEPT ![r].admin = IF bg'[r].pc = "revAdmin" THEN @ + 1 ELSE @,
                        ![r].device = IF bg'[r].pc = "revDevice" THEN @ + 1 ELSE @]
  /\ UNCHANGED << runs, cl, ctxDone, doneClosed, cfg, hcfg, reqs, trun,
                  realms, uniqueName, entropy, apps >>

\* The goroutine's function returns, or unwinds in a panic: the deferred calls
\* run, last registered first; with none left the goroutine has exited, or,
\* when it is panicking, the process crashes.
BgReturn(r) ==
  /\ Alive(r) /\ bg[r].pc = "return"
  /\ IF bg[r].defers = << >>
     THEN IF bg[r].panicking
          THEN Panic(r, "nilDeref") /\ UNCHANGED bg
          ELSE bg' = [bg EXCEPT ![r].pc = "exited"] /\ UNCHANGED proc
     ELSE /\ bg' = [bg EXCEPT ![r].pc = bg[r].defers[Len(bg[r].defers)],
                              ![r].defers = SubSeq(@, 1, Len(@) - 1)]
          /\ UNCHANGED proc
  /\ rev' = [rev EXCEPT ![r].admin = IF bg'[r].pc = "revAdmin" THEN @ + 1 ELSE @,
                        ![r].device = IF bg'[r].pc = "revDevice" THEN @ + 1 ELSE @]
  /\ UNCHANGED << runs, cl, ctxDone, doneClosed, cfg, hcfg, reqs, trun,
                  realms, uniqueName, entropy, apps >>

\* db.FindAuthorizedAppByAPIKey(key): the app, or no app (nil) and an error
NilApp == [app |-> NoKey, err |-> TRUE]
FindAuthorizedAppByAPIKey(key, ok) ==
  IF ok THEN [app |-> key, err |-> FALSE] ELSE NilApp

\* device cleanup: app, err := db.FindAuthorizedAppByAPIKey(deviceKey);
\* on an error it is logged and the deferred function returns
BgRevDeviceFetch(r) ==
  /\ Alive(r) /\ bg[r].pc = "revDevice"
  /\ \E ok \in BOOLEAN :
       IF ~FindAuthorizedAppByAPIKey(bg[r].deviceKey, ok).err
       THEN bg' = [bg EXCEPT ![r].pc = "revDeviceSave"] /\ UNCHANGED rev
       ELSE /\ bg' = [bg EXCEPT ![r].pc = "return"]
            /\ rev' = [rev EXCEPT ![r].fail = @ \cup {"deviceFetch"}]
  /\ UNCHANGED << runs, cl, proc, ctxDone, doneClosed, cfg, hcfg, reqs, trun,
                  realms, uniqueName, entropy, apps >>

\* app.DeletedAt = &now; db.SaveAuthorizedApp(app, System): a failure is logged
SaveDeleted(r, k, what) ==
  \E ok \in BOOLEAN :
    IF ok
    THEN apps' = [apps EXCEPT ![k].deleted = TRUE] /\ UNCHANGED rev
    ELSE UNCHANGED apps /\ rev' = [rev EXCEPT ![r].fail = @ \cup {what}]

BgRevDeviceSave(r) ==
  /\ Alive(r) /\ bg[r].pc = "revDeviceSave"
  /\ SaveDeleted(r, bg[r].deviceKey, "deviceSave")
  /\ bg' = [bg EXCEPT ![r].pc = "return"]
  /\ UNCHANGED << runs, cl, proc, ctxDone, doneClosed, cfg, hcfg, reqs, trun,
                  realms, uniqueName, entropy >>

\* admin cleanup: app, err := db.FindAuthorizedAppByAPIKey(adminKey); an error
\* is logged and the function goes on to app.DeletedAt = &now: with a nil app
\* that dereference panics, and the goroutine unwinds through the deferred
\* calls that are left
BgRevAdminFetch(r) ==
  /\ Alive(r) /\ bg[r].pc = "revAdmin"
  /\ \E ok \in BOOLEAN :
       LET found == FindAuthorizedAppByAPIKey(bg[r].adminKey, ok)
       IN /\ rev' = [rev EXCEPT ![r].fail = IF found.err THEN @ \cup {"adminFetch"} ELSE @]
          /\ IF found.app # NoKey
             THEN bg' = [bg EXCEPT ![r].pc = "revAdminSave"]
             ELSE bg' = [bg EXCEPT ![r].pc = "return", ![r].panicking = TRUE]
  /\ UNCHANGED << runs, cl, proc, ctxDone, doneClosed, cfg, hcfg, reqs, trun,
                  realms, uniqueName, entropy, apps >>

BgRevAdminSave(r) ==
  /\ Alive(r) /\ bg[r].pc = "revAdminSave"
  /\ SaveDeleted(r, bg[r].adminKey, "adminSave")
  /\ bg' = [bg EXCEPT ![r].pc = "return"]
  /\ UNCHANGED << runs, cl, proc, ctxDone, doneClosed, cfg, hcfg, reqs, trun,
                  realms, uniqueName, entropy >>

\* the deferred db.Close()
BgClose(r) ==
  /\ Alive(r) /\ bg[r].pc = "close"
  /\ bg' = [bg EXCEPT ![r].pc = "return", ![r].db = "closed", ![r].closes = @ + 1]
  /\ UNCHANGED << runs, cl, proc, ctxDone, doneClosed, cfg, hcfg, reqs, trun, rev,
                  realms, uniqueName, entropy, apps >>

\* ---------------------------------------------------------------- Setup
\* close(done): closing a closed channel panics
CloseDone(r) ==
  IF doneClosed[r]
  THEN Panic(r, "closeClosed") /\ UNCHANGED doneClosed
  ELSE doneClosed' = [doneClosed EXCEPT ![r] = TRUE] /\ UNCHANGED proc

\* Setup is entered: ready and done are made, the goroutine is started and
\* the caller waits at `<-ready`
SetupCall(r) ==
  /\ Alive(r) /\ cl[r].pc \in {"m_setup", "t_setup", "c_setup"}
  /\ cl' = [cl EXCEPT ![r].pc = "s_recv"]
  /\ bg' = [bg EXCEPT ![r].pc = "load"]
  /\ UNCHANGED << runs, proc, ctxDone, doneClosed, cfg, hcfg, reqs, trun, rev,
                  realms, uniqueName, entropy, apps >>

\* where the caller goes on once Setup has returned
AfterSetup(kind, ok) ==
  CASE kind = "main" -> IF ok THEN "m_render" ELSE "m_exit"
    [] kind = "test" -> "t_case"
    [] OTHER -> IF ok THEN "c_hold" ELSE "c_end"

\* if err := <-ready; err != nil { close(done); return nil, err }
\* return func() { close(done) }, nil
SetupReturn(r) ==
  /\ Alive(r) /\ cl[r].pc = "s_got"
  /\ IF cl[r].recv # "nil"
     THEN /\ CloseDone(r)
          /\ cl' = [cl EXCEPT ![r].ret = "err", ![r].err = TRUE,
                              ![r].pc = AfterSetup(cl[r].kind, FALSE)]
     ELSE /\ cl' = [cl EXCEPT ![r].ret = "ok", ![r].pc = AfterSetup(cl[r].kind, TRUE)]
          /\ UNCHANGED << doneClosed, proc >>
  /\ UNCHANGED << runs, bg, ctxDone, cfg, hcfg, reqs, trun, rev,
                  realms, uniqueName, entropy, apps >>

\* A call of the value Setup returned: func() { close(done) } after a success,
\* the nil func after a failure (calling it panics)
InvokeReturned(r) ==
  IF cl[r].ret = "ok"
  THEN CloseDone(r)
  ELSE Panic(r, "nilFunc") /\ UNCHANGED doneClosed

\* the context is cancelled from outside (an interrupt for main); the test's
\* context.Background() is never cancelled
Cancel(r) ==
  /\ Alive(r) /\ ~ctxDone[r] /\ cl[r].kind # "test"
  /\ ctxDone' = [ctxDone EXCEPT ![r] = TRUE]
  /\ UNCHANGED << runs, cl, bg, proc, doneClosed, cfg, hcfg, reqs, trun, rev,
                  realms, uniqueName, entropy, apps >>

\* ------------------------------------------------ a client of Setup
\* the holder of the returned teardown function invokes it
ClientTeardown(r) ==
  /\ Alive(r) /\ cl[r].pc = "c_hold" /\ cl[r].tdCalls < MaxTeardownCalls
  /\ InvokeReturned(r)
  /\ cl' = [cl EXCEPT ![r].tdCalls = @ + 1]
  /\ UNCHANGED << runs, bg, ctxDone, cfg, hcfg, reqs, trun, rev,
                  realms, uniqueName, entropy, apps >>

\* ------------------------------------------------------- TestE2E
\* e2eConfig, err := config.NewE2ERunnerConfig(ctx); t.Fatalf on an error
TestConfig(r) ==
  /\ Alive(r) /\ cl[r].pc = "t_config"
  /\ \E ok \in BOOLEAN :
       cl' = [cl EXCEPT ![r].pc = IF ok THEN "t_setup" ELSE "t_exit", ![r].err = ~ok]
  /\ UNCHANGED << runs, bg, proc, ctxDone, doneClosed, cfg, hcfg, reqs, trun, rev,
                  realms, uniqueName, entropy, apps >>

\* Variant of TestCase in which the subtest takes a pointer to the shared
\* configuration (cfg := &e2eConfig.TestConfig) and sets DoRevise through it
TestCase_SharedCfg(r) ==
  /\ Alive(r) /\ cl[r].pc = "t_case" /\ cl[r].tcase <= Len(cases)
  /\ cfg' = [cfg EXCEPT ![r].DoRevise = cases[cl[r].tcase].Revise]
  /\ \E ok \in BOOLEAN :
       LET c == [cfg[r] EXCEPT !.DoRevise = cases[cl[r].tcase].Revise]
       IN trun' = [trun EXCEPT ![r] = Append(@,
                     [name |-> cases[cl[r].tcase].Name, flag |-> c.DoRevise,
                      admin |-> c.VerificationAdminAPIKey,
                      device |-> c.VerificationAPIServerKey,
                      live |-> IsLive(c.VerificationAdminAPIKey)
                                 /\ IsLive(c.VerificationAPIServerKey),
                      ok |-> ok])]
  /\ cl' = [cl EXCEPT ![r].tcase = @ + 1]
  /\ UNCHANGED << runs, bg, proc, ctxDone, doneClosed, hcfg, reqs, rev,
                  realms, uniqueName, entropy, apps >>

\* one subtest: cfg := e2eConfig.TestConfig; cfg.DoRevise = tc.Revise;
\* clients.RunEndToEnd(ctx, &cfg)
TestCase(r) ==
  /\ Alive(r) /\ cl[r].pc = "t_case" /\ cl[r].tcase <= Len(cases)
  /\ \E ok \in BOOLEAN :
       LET c == [cfg[r] EXCEPT !.DoRevise = cases[cl[r].tcase].Revise]
       IN trun' = [trun EXCEPT ![r] = Append(@,
                     [name |-> cases[cl[r].tcase].Name, flag |-> c.DoRevise,
                      admin |-> c.VerificationAdminAPIKey,
                      device |-> c.VerificationAPIServerKey,
                      live |-> IsLive(c.VerificationAdminAPIKey)
                                 /\ IsLive(c.VerificationAPIServerKey),
                      ok |-> ok])]
  /\ cl' = [cl EXCEPT ![r].tcase = @ + 1]
  /\ UNCHANGED << runs, bg, proc, ctxDone, doneClosed, cfg, hcfg, reqs, rev,
                  realms, uniqueName, entropy, apps >>

\* TestE2E returns: the deferred close() runs
TestReturn(r) ==
  /\ Alive(r) /\ cl[r].pc = "t_case" /\ cl[r].tcase > Len(cases)
  /\ InvokeReturned(r)
  /\ cl' = [cl EXCEPT ![r].pc = "t_exit", ![r].tdCalls = @ + 1]
  /\ UNCHANGED << runs, bg, ctxDone, cfg, hcfg, reqs, trun, rev,
                  realms, uniqueName, entropy, apps >>

\* the test binary exits
TestExit(r) ==
  /\ Alive(r) /\ cl[r].pc = "t_exit"
  /\ proc' = [proc EXCEPT ![r].st = "exited"]
  /\ UNCHANGED << runs, cl, bg, ctxDone, doneClosed, cfg, hcfg, reqs, trun, rev,
                  realms, uniqueName, entropy, apps >>

\* ------------------------------------------------ cmd/e2e-runner main
\* e2eConfig, err := config.NewE2ERunnerConfig(ctx)
MainConfig(r) ==
  /\ Alive(r) /\ cl[r].pc = "m_config"
  /\ \E ok \in BOOLEAN :
       cl' = [cl EXCEPT ![r].pc = IF ok THEN "m_observ" ELSE "m_exit", ![r].err = ~ok]
  /\ UNCHANGED << runs, bg, proc, ctxDone, doneClosed, cfg, hcfg, reqs, trun, rev,
                  realms, uniqueName, entropy, apps >>

\* observability.NewFromEnv, oe.StartExporter; defer oe.Close()
MainObservability(r) ==
  /\ Alive(r) /\ cl[r].pc = "m_observ"
  /\ \E ok \in BOOLEAN :
       cl' = [cl EXCEPT ![r].pc = IF ok THEN "m_setup" ELSE "m_exit", ![r].err = ~ok]
  /\ UNCHANGED << runs, bg, proc, ctxDone, doneClosed, cfg, hcfg, reqs, trun, rev,
                  realms, uniqueName, entropy, apps >>

\* (after Setup succeeded: defer done()) h, err := render.New(...)
MainRender(r) ==
  /\ Alive(r) /\ cl[r].pc = "m_render"
  /\ \E ok \in BOOLEAN :
       cl' = [cl EXCEPT ![r].pc = IF ok THEN "m_handlers" ELSE "m_return", ![r].err = ~ok]
  /\ UNCHANGED << runs, bg, proc, ctxDone, doneClosed, cfg, hcfg, reqs, trun, rev,
                  realms, uniqueName, entropy, apps >>

\* defaultHandler(ctx, config): config is the handler's own copy (passed by
\* value); c := &config; c.DoRevise = false
defaultHandler(config) ==
  [config EXCEPT !.DoRevise = FALSE] @@ [registered |-> TRUE]

\* reviseHandler(ctx, config): c := &config; c.DoRevise = true
reviseHandler(config) ==
  [config EXCEPT !.DoRevise = TRUE] @@ [registered |-> TRUE]

\* Variant of MainHandlers in which both closures hold a pointer to the one
\* shared configuration instead of a copy: the last write of DoRevise wins
MainHandlers_Shared(r) ==
  /\ Alive(r) /\ cl[r].pc = "m_handlers"
  /\ cfg' = [cfg EXCEPT ![r].DoRevise = TRUE]
  /\ hcfg' = [hcfg EXCEPT ![r] = [default |-> reviseHandler(defaultHandler(cfg[r])),
                                  revise |-> reviseHandler(defaultHandler(cfg[r]))]]
  /\ cl' = [cl EXCEPT ![r].pc = "m_srvnew"]
  /\ UNCHANGED << runs, bg, proc, ctxDone, doneClosed, reqs, trun, rev,
                  realms, uniqueName, entropy, apps >>

\* r.HandleFunc("/default", defaultHandler(ctx, e2eConfig.TestConfig))
\* r.HandleFunc("/revise", reviseHandler(ctx, e2eConfig.TestConfig))
MainHandlers(r) ==
  /\ Alive(r) /\ cl[r].pc = "m_handlers"
  /\ hcfg' = [hcfg EXCEPT ![r] = [default |-> defaultHandler(cfg[r]),
                                  revise |-> reviseHandler(cfg[r])]]
  /\ cl' = [cl EXCEPT ![r].pc = "m_srvnew"]
  /\ UNCHANGED << runs, bg, proc, ctxDone, doneClosed, cfg, reqs, trun, rev,
                  realms, uniqueName, entropy, apps >>

\* srv, err := server.New(e2eConfig.Port)
MainServerNew(r) ==
  /\ Alive(r) /\ cl[r].pc = "m_srvnew"
  /\ \E ok \in BOOLEAN :
       cl' = [cl EXCEPT ![r].pc = IF ok THEN "m_serving" ELSE "m_return", ![r].err = ~ok]
  /\ UNCHANGED << runs, bg, proc, ctxDone, doneClosed, cfg, hcfg, reqs, trun, rev,
                  realms, uniqueName, entropy, apps >>

\* srv.ServeHTTPHandler returns: nil once the context is cancelled and the
\* server has shut down, an error when serving fails
MainServeReturn(r) ==
  /\ Alive(r) /\ cl[r].pc = "m_serving"
  /\ \E ok \in BOOLEAN :
       /\ ok => ctxDone[r]
       /\ cl' = [cl EXCEPT ![r].pc = "m_return", ![r].err = ~ok]
  /\ UNCHANGED << runs, bg, proc, ctxDone, doneClosed, cfg, hcfg, reqs, trun, rev,
                  realms, uniqueName, entropy, apps >>

\* realMain returns after Setup succeeded: the deferred done() runs, then
\* the deferred oe.Close()
MainRealReturn(r) ==
  /\ Alive(r) /\ cl[r].pc = "m_return"
  /\ InvokeReturned(r)
  /\ cl' = [cl EXCEPT ![r].pc = "m_exit", ![r].tdCalls = @ + 1]
  /\ UNCHANGED << runs, bg, ctxDone, cfg, hcfg, reqs, trun, rev,
                  realms, uniqueName, entropy, apps >>

\* main, after realMain: done() of signalcontext cancels the context
MainDone(r) ==
  /\ Alive(r) /\ cl[r].pc = "m_exit"
  /\ ctxDone' = [ctxDone EXCEPT ![r] = TRUE]
  /\ cl' = [cl EXCEPT ![r].pc = "m_log"]
  /\ UNCHANGED << runs, bg, proc, doneClosed, cfg, hcfg, reqs, trun, rev,
                  realms, uniqueName, entropy, apps >>

\* logger.Fatal(err) or logger.Info("successful shutdown"); main returns and
\* the process ends, whatever its other goroutines are doing
MainExit(r) ==
  /\ Alive(r) /\ cl[r].pc = "m_log"
  /\ proc' = [proc EXCEPT ![r].st = "exited"]
  /\ UNCHANGED << runs, cl, bg, ctxDone, doneClosed, cfg, hcfg, reqs, trun, rev,
                  realms, uniqueName, entropy, apps >>

\* ------------------------------------------------------ HTTP handlers
\* A request for /default or /revise arrives while the server serves: the
\* handler closure calls clients.RunEndToEnd(ctx, c) with its own c. The
\* request is recorded in the first slot that holds no running request, with
\* what the workflow sees as it starts: the flag, whether both keys are live,
\* and whether neither wake-up of the goroutine has happened yet.
ReqStart(r, i, rt) ==
  /\ Alive(r) /\ cl[r].pc = "m_serving" /\ reqs[r][i].st # "run"
  /\ \A j \in Slots : j < i => reqs[r][j].st = "run"
  /\ LET c == hcfg[r][rt]
     IN reqs' = [reqs EXCEPT ![r][i] =
                   [st |-> "run", route |-> rt,
                    live |-> IsLive(c.VerificationAdminAPIKey)
                               /\ IsLive(c.VerificationAPIServerKey),
                    window |-> ~ctxDone[r] /\ ~doneClosed[r],
                    flag |-> c.DoRevise, werr |-> "none",
                    status |-> 0, body |-> << >>]]
  /\ UNCHANGED << runs, cl, bg, proc, ctxDone, doneClosed, cfg, hcfg, trun, rev,
                  realms, uniqueName, entropy, apps >>

\* http.Error(w, "failed (check server logs for more details): "+err.Error(), 500)
\* writes the status and the message followed by a newline
HttpError(msg, code) == [status |-> code, body |-> msg \o << "\n" >>]

\* Variant of ReqFinish that reports a failed workflow without the error status
ReqFinish_NoStatus(r, i) ==
  /\ Alive(r) /\ reqs[r][i].st = "run"
  /\ \E ok \in BOOLEAN :
       LET resp == IF ok THEN [status |-> StatusOK, body |-> << "ok" >>]
                   ELSE HttpError(<< FailPrefix, "err" >>, StatusOK)
       IN reqs' = [reqs EXCEPT ![r][i] =
                     [st |-> "done", route |-> reqs[r][i].route,
                      live |-> FALSE, window |-> FALSE,
                      flag |-> hcfg[r][reqs[r][i].route].DoRevise,
                      werr |-> IF ok THEN "nil" ELSE "err",
                      status |-> resp.status, body |-> resp.body]]
  /\ UNCHANGED << runs, cl, bg, proc, ctxDone, doneClosed, cfg, hcfg, trun, rev,
                  realms, uniqueName, entropy, apps >>

\* RunEndToEnd returns (it reads c.DoRevise on its way) and the handler
\* answers: http.Error on an error, fmt.Fprint(w, "ok") otherwise
ReqFinish(r, i) ==
  /\ Alive(r) /\ reqs[r][i].st = "run"
  /\ \E ok \in BOOLEAN :
       LET resp == IF ok THEN [status |-> StatusOK, body |-> << "ok" >>]
                   ELSE HttpError(<< FailPrefix, "err" >>, StatusInternalServerError)
       IN reqs' = [reqs EXCEPT ![r][i] =
                     [st |-> "done", route |-> reqs[r][i].route,
                      live |-> FALSE, window |-> FALSE,
                      flag |-> hcfg[r][reqs[r][i].route].DoRevise,
                      werr |-> IF ok THEN "nil" ELSE "err",
                      status |-> resp.status, body |-> resp.body]]
  /\ UNCHANGED << runs, cl, bg, proc, ctxDone, doneClosed, cfg, hcfg, trun, rev,
                  realms, uniqueName, entropy, apps >>

\* ------------------------------------------------------ specifications
BgStep(r) ==
  \/ BgLoad(r) \/ BgOpen(r) \/ BgFindRealm(r) \/ BgSaveRealm(r) \/ BgSuffix(r)
  \/ BgCreateAdmin(r) \/ BgCreateDevice(r) \/ BgWriteCfg(r) \/ BgSelect(r)
  \/ BgReturn(r) \/ BgRevDeviceFetch(r) \/ BgRevDeviceSave(r)
  \/ BgRevAdminFetch(r) \/ BgRevAdminSave(r) \/ BgClose(r)

SetupStep(r) == SetupCall(r) \/ ReadyHandshake(r) \/ SetupReturn(r)

Next ==
  \/ \E r \in Runs : BgLoad(r)
  \/ \E r \in Runs : BgOpen(r)
  \/ \E r \in Runs : BgFindRealm(r)
  \/ \E r \in Runs : BgSaveRealm(r)
  \/ \E r \in Runs : BgSuffix(r)
  \/ \E r \in Runs : BgCreateAdmin(r)
  \/ \E r \in Runs : BgCreateDevice(r)
  \/ \E r \in Runs : BgWriteCfg(r)
  \/ \E r \in Runs : BgSelect(r)
  \/ \E r \in Runs : BgReturn(r)
  \/ \E r \in Runs : BgRevDeviceFetch(r)
  \/ \E r \in Runs : BgRevDeviceSave(r)
  \/ \E r \in Runs : BgRevAdminFetch(r)
  \/ \E r \in Runs : BgRevAdminSave(r)
  \/ \E r \in Runs : BgClose(r)
  \/ \E r \in Runs : SetupCall(r)
  \/ \E r \in Runs : ReadyHandshake(r)
  \/ \E r \in Runs : SetupReturn(r)
  \/ \E r \in Runs : Cancel(r)
  \/ \E r \in Runs : ClientTeardown(r)
  \/ \E r \in Runs : TestConfig(r)
  \/ \E r \in Runs : TestCase(r)
  \/ \E r \in Runs : TestReturn(r)
  \/ \E r \in Runs : TestExit(r)
  \/ \E r \in Runs : MainConfig(r)
  \/ \E r \in Runs : MainObservability(r)
  \/ \E r \in Runs : MainRender(r)
  \/ \E r \in Runs : MainHandlers(r)
  \/ \E r \in Runs : MainServerNew(r)
  \/ \E r \in Runs : MainServeReturn(r)
  \/ \E r \in Runs : MainRealReturn(r)
  \/ \E r \in Runs : MainDone(r)
  \/ \E r \in Runs : MainExit(r)
  \/ \E r \in Runs, i \in Slots, rt \in {"default", "revise"} : ReqStart(r, i, rt)
  \/ \E r \in Runs, i \in Slots : ReqFinish(r, i)

Spec == Init /\ [][Next]_vars

\* N clients call Setup concurrently against one database that holds no
\* realm of the test's name yet
InitConc ==
  /\ InitCommon
  /\ runs = Runs
  /\ \A r \in Runs : cl[r].kind = "client" /\ cfg[r].DoRevise = FALSE
  /\ \A r \in Runs : entropy[r] = (r - 1) % (MaxSeed + 1)
  /\ realms = 0

NextConc ==
  \/ \E r \in Runs : BgStep(r)
  \/ \E r \in Runs : SetupStep(r)
  \/ \E r \in Runs : ClientTeardown(r)

SpecConc == InitConc /\ [][NextConc]_vars

\* One client calls Setup; rand.Read delivers any of the buffers
InitNames ==
  /\ InitCommon
  /\ runs = {1}
  /\ \A r \in Runs : cl[r].kind = "client" /\ cfg[r].DoRevise = FALSE
  /\ \A r \in Runs \ {1} : entropy[r] = 0
  /\ realms \in {0, 1}
  /\ uniqueName

SpecNames == InitNames /\ [][NextConc]_vars

\* The scheduler runs a goroutine that can take a step: the background
\* goroutine and the steps of Setup are not postponed forever. Nothing makes
\* the callers go on.
Fairness ==
  \A r \in Runs : WF_vars(BgStep(r)) /\ WF_vars(SetupStep(r))

SpecFair == Init /\ [][Next]_vars /\ Fairness

\* =============================================================== claims
Admin(r) == bg[r].adminKey
Device(r) == bg[r].deviceKey
Starting == {"load", "open", "find", "saveRealm", "suffix", "createAdmin",
             "createDevice", "writeCfg", "send"}

\* C1: once the background goroutine has exited, and no fetch or save of a
\* revocation failed, every credential its Setup call created carries a
\* deletion timestamp, whatever the outcome (teardown, cancellation, a failed
\* provisioning step); and a lifecycle never has more than one live admin
\* and one live device credential.
C1_AllRevokedOnExit ==
  \A r \in runs :
    /\ (bg[r].pc = "exited" /\ rev[r].fail = {})
         => \A k \in CreatedBy(r) : apps[k].deleted
    /\ Cardinality(LiveOf(r, APIKeyTypeAdmin)) <= 1
    /\ Cardinality(LiveOf(r, APIKeyTypeDevice)) <= 1

\* C1 witness: the goroutine has exited after a cancellation alone (the
\* teardown function never invoked) and both credentials it created are deleted
C1_Witness ==
  \E r \in runs :
    /\ bg[r].pc = "exited" /\ rev[r].fail = {}
    /\ ctxDone[r] /\ ~doneClosed[r]
    /\ Cardinality(CreatedBy(r)) = 2
    /\ \A k \in CreatedBy(r) : apps[k].deleted

\* C2: after a successful Setup whose teardown function is invoked at most
\* once, in every order of the two wake-ups, no revocation is started twice,
\* the process is not crashed by the signalling (nor at all while the
\* revocation calls succeed), and a goroutine that has run to its end has run
\* each revocation exactly once.
C2_RevokedExactlyOnce ==
  \A r \in runs :
    (cl[r].ret = "ok" /\ cl[r].tdCalls <= 1) =>
      /\ rev[r].admin <= 1 /\ rev[r].device <= 1
      /\ proc[r].crash \notin {"closeClosed", "nilFunc"}
      /\ rev[r].fail = {} => proc[r].st # "crashed"
      /\ bg[r].pc = "exited" => rev[r].admin = 1 /\ rev[r].device = 1

\* C2 witness: the context was cancelled and then realMain's deferred done()
\* closed the channel; the goroutine ran both revocations once and exited
C2_Witness ==
  \E r \in runs :
    /\ cl[r].kind = "main" /\ cl[r].ret = "ok" /\ cl[r].tdCalls = 1
    /\ ctxDone[r] /\ doneClosed[r] /\ proc[r].st = "running"
    /\ bg[r].pc = "exited" /\ rev[r].admin = 1 /\ rev[r].device = 1

\* C3: in every execution of main with a successful Setup, the process exits
\* only after the background goroutine has finished its deferred cleanup.
C3_ExitAfterCleanup ==
  \A r \in runs :
    (cl[r].kind = "main" /\ cl[r].ret = "ok" /\ proc[r].st = "exited")
      => bg[r].pc = "exited"

\* C4: invoking the teardown function of a successful Setup a second time
\* does not crash the process.
C4_SecondTeardownSafe ==
  \A r \in runs :
    (cl[r].ret = "ok" /\ cl[r].tdCalls >= 2) => proc[r].crash # "closeClosed"

\* C5: whichever provisioning step fails, Setup returns an error, and once it
\* has returned no credential created by that call exists in the database.
C5_NoCredentialAfterFailure ==
  \A r \in runs :
    /\ (cl[r].ret # "pending" /\ cl[r].recv \in ProvisionErrs) => cl[r].ret = "err"
    /\ cl[r].ret = "err" => CreatedBy(r) = {}

\* C6: Setup has returned only once the goroutine has sent its readiness
\* result (cancelled context or not): with a nil error only when both
\* credentials exist and their keys are in cfg.TestConfig, with an error only
\* when a provisioning step failed.
C6_ReturnsAfterReadiness ==
  \A r \in runs :
    /\ cl[r].ret # "pending" => bg[r].pc \notin Starting \cup {"idle"}
    /\ cl[r].ret = "ok" =>
         /\ cl[r].recv = "nil"
         /\ Admin(r) \in CreatedBy(r) /\ apps[Admin(r)].type = APIKeyTypeAdmin
         /\ Device(r) \in CreatedBy(r) /\ apps[Device(r)].type = APIKeyTypeDevice
         /\ cfg[r].VerificationAdminAPIKey = Admin(r)
         /\ cfg[r].VerificationAPIServerKey = Device(r)
    /\ cl[r].ret = "err" => cl[r].recv \in ProvisionErrs

\* C6 witness: the context is cancelled while the goroutine is still
\* provisioning, and Setup's caller is still waiting for the readiness result
C6_Witness ==
  \E r \in runs :
    /\ ctxDone[r] /\ cl[r].pc = "s_recv" /\ cl[r].ret = "pending"
    /\ bg[r].pc = "createDevice"

\* C7: from a successful Setup's return until the teardown function is
\* invoked or the context is cancelled, the goroutine waits in its select,
\* has started no revocation and both credentials are live; every workflow
\* run issued in that window (by a handler or by the test's subtests) starts
\* with live credentials.
C7_LiveWhileRunning ==
  \A r \in runs :
    /\ (cl[r].ret = "ok" /\ ~doneClosed[r] /\ ~ctxDone[r]) =>
         /\ bg[r].pc = "select"
         /\ rev[r].admin = 0 /\ rev[r].device = 0
         /\ IsLive(Admin(r)) /\ IsLive(Device(r))
         /\ \A j \in 1..Len(trun[r]) : trun[r][j].live
    /\ \A i \in Slots : (reqs[r][i].st = "run" /\ reqs[r][i].window) => reqs[r][i].live

\* C7 witness: a handler's workflow run is in flight, started in the window
C7_Witness ==
  \E r \in runs, i \in Slots :
    /\ cl[r].ret = "ok" /\ ~doneClosed[r] /\ ~ctxDone[r]
    /\ reqs[r][i].st = "run" /\ reqs[r][i].window /\ reqs[r][i].live

\* C8: every workflow invocation of the /default handler sees DoRevise = FALSE
\* and every one of the /revise handler sees DoRevise = TRUE, at its start and
\* at its end, whatever else is running.
C8_FlagMatchesRoute ==
  \A r \in runs, i \in Slots :
    reqs[r][i].st \in {"run", "done"} =>
      reqs[r][i].flag = (reqs[r][i].route = "revise")

\* C8 witness: a /default and a /revise handler execute at the same time
C8_Witness ==
  \E r \in runs, i, j \in Slots :
    /\ reqs[r][i].st = "run" /\ reqs[r][i].route = "default"
    /\ reqs[r][j].st = "run" /\ reqs[r][j].route = "revise"

\* C9: after N concurrent Setup invocations against a database without the
\* realm, exactly one realm named e2e-test-realm exists: never more than one,
\* and one as soon as every Setup has returned and one of them succeeded.
C9_OneRealm ==
  /\ realms <= 1
  /\ ((\A r \in runs : cl[r].ret # "pending") /\ (\E r \in runs : cl[r].ret = "ok"))
       => realms = 1

\* C10: a request whose workflow failed is answered 500 with a body that
\* starts with the failure prefix, a successful one 200 "ok"; and a step of a
\* request changes nothing of the credential lifecycle nor of the
\* configurations.
C10_Responses ==
  \A r \in runs, i \in Slots :
    reqs[r][i].st = "done" =>
      /\ reqs[r][i].werr = "err" =>
           /\ reqs[r][i].status = StatusInternalServerError
           /\ Len(reqs[r][i].body) >= 2
           /\ reqs[r][i].body[1] = FailPrefix
      /\ reqs[r][i].werr = "nil" =>
           /\ reqs[r][i].status = StatusOK
           /\ reqs[r][i].body = << "ok" >>
      /\ reqs[r][i].werr \in {"nil", "err"}

C10_RequestsContained ==
  /\ []C10_Responses
  /\ [][reqs' # reqs =>
          UNCHANGED << cl, bg, proc, ctxDone, doneClosed, cfg, hcfg, rev, apps, realms >>]_vars

\* C10 witness: a failed request was answered while the coordinator is in
\* Running with both credentials live
C10_Witness ==
  \E r \in runs, i \in Slots :
    /\ reqs[r][i].st = "done" /\ reqs[r][i].werr = "err"
    /\ reqs[r][i].status = StatusInternalServerError
    /\ bg[r].pc = "select" /\ IsLive(Admin(r)) /\ IsLive(Device(r))

\* the value of a hex digit
HexVal(c) == (CHOOSE k \in 1..16 : HexDigits[k] = c) - 1
IsHexDigit(c) == \E k \in 1..16 : HexDigits[k] = c

C12_RevocationFailuresOnlyLogged ==
  \A r \in runs :
    /\ rev[r].fail # {} => (~bg[r].panicking /\ proc[r].crash # "nilDeref")
    /\ (bg[r].pc = "exited" /\ cl[r].recv = "nil") =>
         (rev[r].admin = 1 /\ rev[r].device = 1 /\ bg[r].db = "closed")

\* C13 (as claimed): a revocation runs only in a lifecycle whose readiness was
\* reported as success.
C13_RevocationOnlyAfterSuccess ==
  \A r \in runs :
    (rev[r].admin > 0 \/ rev[r].device > 0) => cl[r].recv = "nil"

\* C13 (amended): a revocation starts only after the readiness result was
\* received; the device revocation only after a success; the admin revocation
\* after a success or after the device key creation failed; after a failure of
\* any earlier step no revocation runs at all.
C13_RevocationOnlyForCreated ==
  \A r \in runs :
    /\ (rev[r].admin > 0 \/ rev[r].device > 0) => cl[r].recvs = 1
    /\ rev[r].device > 0 => cl[r].recv = "nil"
    /\ rev[r].admin > 0 => cl[r].recv \in {"nil", "createDevice"}
    /\ bg[r].send \in ProvisionErrs \ {"createDevice"} =>
         (rev[r].admin = 0 /\ rev[r].device = 0)

\* C13 witness: the device key creation failed, the error was reported, and
\* the admin revocation (alone) ran before the goroutine exited
C13_Witness ==
  \E r \in runs :
    /\ cl[r].recv = "createDevice" /\ bg[r].pc = "exited"
    /\ rev[r].admin = 1 /\ rev[r].device = 0
    /\ apps[Admin(r)].deleted

\* C14: after a successful Setup, once the teardown function was invoked or
\* the context cancelled, the goroutine eventually has attempted both
\* revocations, closed the database and exited.
C14_TeardownCompletes ==
  \A r \in Runs :
    (cl[r].ret = "ok" /\ (doneClosed[r] \/ ctxDone[r]))
      ~> (bg[r].pc = "exited" /\ bg[r].db = "closed"
            /\ rev[r].admin = 1 /\ rev[r].device = 1)

\* C15: in a teardown after a successful Setup the admin revocation runs only
\* when the device revocation has run to its end, and the database is closed
\* only when both revocations have.
InDeviceRev(r) == bg[r].pc \in {"revDevice", "revDeviceSave"}
InAdminRev(r) == bg[r].pc \in {"revAdmin", "revAdminSave"}
C15_ReverseOrder ==
  \A r \in runs :
    cl[r].recv = "nil" =>
      /\ (InAdminRev(r) \/ rev[r].admin > 0) => (rev[r].device = 1 /\ ~InDeviceRev(r))
      /\ (bg[r].pc = "close" \/ bg[r].db = "closed") =>
           /\ rev[r].admin = 1 /\ rev[r].device = 1
           /\ ~InAdminRev(r) /\ ~InDeviceRev(r)

\* C15 witness: the admin revocation is running after the device revocation
\* has deleted the device credential
C15_Witness ==
  \E r \in runs :
    /\ cl[r].recv = "nil" /\ InAdminRev(r)
    /\ rev[r].device = 1 /\ apps[Device(r)].deleted /\ ~apps[Admin(r)].deleted
    /\ bg[r].db = "open"

\* C16: the two credential fields of the shared configuration are written
\* once, by the goroutine, before it sends the nil readiness value, and never
\* again; a handler's copy is taken only after Setup returned successfully and
\* holds the two created keys; a subtest's copy holds the shared key values;
\* DoRevise is only ever set on a copy, the shared value keeps its own.
KeysOf(c) == << c.VerificationAdminAPIKey, c.VerificationAPIServerKey >>
C16_ConfigState ==
  \A r \in runs :
    /\ bg[r].cfgw <= 1
    /\ bg[r].cfgw = 1 <=> (bg[r].sends = 1 /\ bg[r].send = "nil")
    /\ cl[r].recv = "nil" => bg[r].cfgw = 1
    /\ KeysOf(cfg[r]) = IF bg[r].cfgw = 1 THEN << Admin(r), Device(r) >>
                                          ELSE << NoKey, NoKey >>
    /\ \A rt \in {"default", "revise"} :
         hcfg[r][rt].registered =>
           /\ cl[r].ret = "ok"
           /\ KeysOf(hcfg[r][rt]) = << Admin(r), Device(r) >>
           /\ Admin(r) # NoKey /\ Device(r) # NoKey /\ Admin(r) # Device(r)
           /\ hcfg[r][rt].DoRevise = (rt = "revise")
    /\ \A j \in 1..Len(trun[r]) :
         /\ cl[r].ret # "pending"
         /\ << trun[r][j].admin, trun[r][j].device >> = KeysOf(cfg[r])
         /\ cl[r].ret = "ok" =>
              << trun[r][j].admin, trun[r][j].device >> = << Admin(r), Device(r) >>
C16_ConfigWrittenOnce ==
  /\ []C16_ConfigState
  /\ [][\A r \in Runs :
          /\ cfg'[r].DoRevise = cfg[r].DoRevise
          /\ cfg'[r] # cfg[r] =>
               /\ bg[r].pc = "writeCfg" /\ bg'[r].pc = "send"
               /\ cl[r].recvs = 0 /\ cl'[r] = cl[r]]_vars

\* C16 witness: both handlers are registered with the two created keys while
\* the shared configuration still has its own DoRevise
C16_Witness ==
  \E r \in runs :
    /\ hcfg[r]["default"].registered /\ hcfg[r]["revise"].registered
    /\ KeysOf(hcfg[r]["revise"]) = << Admin(r), Device(r) >> /\ Admin(r) # NoKey
    /\ hcfg[r]["revise"].DoRevise /\ ~hcfg[r]["default"].DoRevise
    /\ bg[r].cfgw = 1

\* C17: the goroutine executes at most one send on the readiness channel, the
\* caller receives at most once and receives what was sent; once Setup has
\* returned exactly one send and one receive have happened, and a goroutine
\* that has exited has sent exactly once.
C17_OneReadinessSignal ==
  \A r \in runs :
    /\ bg[r].sends <= 1 /\ cl[r].recvs <= 1 /\ cl[r].recvs <= bg[r].sends
    /\ cl[r].ret # "pending" => (bg[r].sends = 1 /\ cl[r].recvs = 1)
    /\ bg[r].pc = "exited" => (bg[r].sends = 1 /\ cl[r].recvs = 1)
    /\ cl[r].recvs = 1 => cl[r].recv = bg[r].send
    /\ bg[r].sends = 1 => bg[r].send \in ProvisionErrs \cup {"nil"}

\* C17 witness: a failure path has sent its one error and the goroutine has
\* exited after the caller received it
C17_Witness ==
  \E r \in runs :
    /\ bg[r].pc = "exited" /\ bg[r].sends = 1 /\ cl[r].recvs = 1
    /\ cl[r].recv = "createDevice" /\ cl[r].ret = "err"

\* C18: the database is used only by the goroutine and only between Open and
\* Close: every database operation finds the connection open, Close is called
\* at most once, a goroutine that has run to its end after a successful Open
\* has called it exactly once, and after a failed Load or Open it is never
\* called.
DbOps == {"find", "saveRealm", "createAdmin", "createDevice",
          "revDevice", "revDeviceSave", "revAdmin", "revAdminSave"}
C18_DbState ==
  \A r \in runs :
    /\ bg[r].closes <= 1
    /\ bg[r].pc \in DbOps => (bg[r].db = "open" /\ bg[r].closes = 0)
    /\ bg[r].db = "closed" <=> bg[r].closes = 1
    /\ (bg[r].pc = "exited" \/ proc[r].crash = "nilDeref") =>
         IF cl[r].recv \in {"load", "open"}
         THEN bg[r].closes = 0 /\ bg[r].db = "none"
         ELSE bg[r].closes = 1 /\ bg[r].db = "closed"
    /\ bg[r].send \in {"load", "open"} => (bg[r].closes = 0 /\ bg[r].db = "none")
C18_DbOwnedByTask ==
  /\ []C18_DbState
  /\ [][\A r \in Runs :
          (apps' # apps \/ realms' # realms \/ bg'[r].db # bg[r].db) =>
            (\E q \in Runs : bg[q].pc \in DbOps \cup {"open", "close"}
                               /\ bg'[q].pc # bg[q].pc /\ cl' = cl)]_vars

\* C18 witness: a goroutine that opened the database and revoked both
\* credentials has closed it once and exited
C18_Witness ==
  \E r \in runs :
    /\ bg[r].pc = "exited" /\ bg[r].closes = 1 /\ bg[r].db = "closed"
    /\ rev[r].admin = 1 /\ rev[r].device = 1

\* C19: the test, which invokes the value Setup returned without looking at
\* the error, does not crash on that call, whatever Setup's outcome.
C19_UncheckedCloseSafe ==
  \A r \in runs :
    (cl[r].kind = "test" /\ cl[r].tdCalls >= 1) => proc[r].crash # "nilFunc"

\* C20: a caller waiting for the readiness value always gets its Setup call
\* returned.
C20_SetupReturns ==
  \A r \in Runs : (cl[r].pc = "s_recv") ~> (cl[r].ret # "pending")

====
